---- MODULE Spec2Model ----
(***************************************************************************)
(* A model of seg_tree::SegTree (src/src/main.rs): a sum segment tree over *)
(* a half-open index range, built by SegTree::new, updated by revise and   *)
(* queried by ask.  The tree is a nested record, one record per SegTree    *)
(* struct; the operations are recursive operators that follow the code     *)
(* line by line, and each public call is one action of the state machine.  *)
(***************************************************************************)
EXTENDS Integers, Sequences, FiniteSets, TLC

\* ---------------------------------------------------------------- bounds

\* Range bounds handed to new/revise/ask are drawn from 0..MaxIndex.
MaxIndex == 3

\* Number of nested build frames the call stack holds before it overflows.
MaxStack == 8

\* ------------------------------------------------------- program constants

\* val: i32
MaxI32 == 2147483647

MinI32 == -MaxI32 - 1

\* The values handed to revise: an ordinary one and both ends of i32.
Values == {MinI32, 1, MaxI32}

Indices == 0..MaxIndex

\* ------------------------------------------------------------------ state

VARIABLES
    tree,             \* the SegTree the caller holds, or None
    op,               \* the last public call and its arguments
    result,           \* what that call did: a return value or a panic
    leaves,           \* ghost: index -> value most recently handed to revise
    overflow_checks   \* build profile: TRUE traps i32 overflow, FALSE wraps

vars == <<tree, op, result, leaves, overflow_checks>>

\* Option::None
None == [tag |-> "None"]

\* The build recursion ran out of stack: the process aborts.
StackOverflow == [tag |-> "StackOverflow"]

NoPanic == "none"

InvalidRangeMsg == "Invalid range: left bound must be less than right bound"

IndexOutOfRangeMsg == "Target index out of range"

InvalidQueryRangeMsg == "Invalid query range"

OverflowMsg == "attempt to add with overflow"

StackOverflowMsg == "stack overflow"

\* ------------------------------------------------------------ arithmetic

\* a + b on i32: a panic under overflow checks, two's complement wrap without.
\* The overflow test and the wrapped result are computed without leaving the
\* i32 range: a + b - 2^32 = (a - 2^31) + (b - 2^31), and likewise below.
add_i32(a, b, checks) ==
    IF b > 0 /\ a > MaxI32 - b
    THEN IF checks THEN [val |-> 0, panic |-> OverflowMsg]
         ELSE [val |-> (a - MaxI32 - 1) + (b - MaxI32 - 1), panic |-> NoPanic]
    ELSE IF b < 0 /\ a < MinI32 - b
    THEN IF checks THEN [val |-> 0, panic |-> OverflowMsg]
         ELSE [val |-> (a + MaxI32 + 1) + (b + MaxI32 + 1), panic |-> NoPanic]
    ELSE [val |-> a + b, panic |-> NoPanic]

comb(a, b, checks) == add_i32(a, b, checks)

\* ----------------------------------------------------------- construction

\* variant: the split rounded up instead of down
MidCeil(l, r) == l + (r - l + 1) \div 2

\* l + (r - l) / 2
Mid(l, r) == l + (r - l) \div 2

RECURSIVE build(_, _, _)
build(l_bound, r_bound, depth) ==
    IF depth > MaxStack THEN StackOverflow
    ELSE IF r_bound - l_bound = 1
    THEN [val |-> 0, l_node |-> None, r_node |-> None,
          range |-> <<l_bound, r_bound>>, mid |-> l_bound]
    ELSE LET m == Mid(l_bound, r_bound)
             left == build(l_bound, m, depth + 1)
             right == build(m, r_bound, depth + 1)
         IN  IF left = StackOverflow THEN StackOverflow
             ELSE IF right = StackOverflow THEN StackOverflow
             ELSE [val |-> 0, l_node |-> left, r_node |-> right,
                   range |-> <<l_bound, r_bound>>, mid |-> Mid(l_bound, r_bound)]

\* variant: the guard written l > r, which lets l = r through
InvalidRangeStrict(l, r) == l > r

\* if l >= r { panic!(...) }
InvalidRange(l, r) == l >= r

new(l, r) ==
    IF InvalidRange(l, r) THEN [node |-> None, panic |-> InvalidRangeMsg]
    ELSE LET m == Mid(l, r)
             left == build(l, m, 1)
             right == build(m, r, 1)
         IN  IF left = StackOverflow THEN [node |-> None, panic |-> StackOverflowMsg]
             ELSE IF right = StackOverflow THEN [node |-> None, panic |-> StackOverflowMsg]
             ELSE [node |-> [val |-> 0, l_node |-> left, r_node |-> right,
                             range |-> <<l, r>>, mid |-> Mid(l, r)],
                   panic |-> NoPanic]

\* ------------------------------------------------------------ point update

\* self.l_node.as_ref().map_or(0, |n| n.borrow().val)
ValOr0(n) == IF n = None THEN 0 ELSE n.val

\* variant: the upper test written >, which lets target_pos = hi through
TargetAboveRange(self, target_pos) ==
    target_pos < self.range[1] \/ target_pos > self.range[2]

\* variant: no range guard at all
NoRangeCheck(self, target_pos) == FALSE

\* target_pos < self.range.0 || target_pos >= self.range.1
TargetOutOfRange(self, target_pos) ==
    target_pos < self.range[1] \/ target_pos >= self.range[2]

\* variant: the leaf accumulates instead of being overwritten
SetLeafAdd(self, value) ==
    [self EXCEPT !.val = add_i32(self.val, value, FALSE).val]

\* self.val = value
SetLeaf(self, value) == [self EXCEPT !.val = value]

RECURSIVE revise(_, _, _, _)
revise(self, target_pos, value, checks) ==
    IF TargetOutOfRange(self, target_pos)
    THEN [node |-> self, panic |-> IndexOutOfRangeMsg]
    ELSE IF <<target_pos, target_pos + 1>> = self.range
    THEN [node |-> SetLeaf(self, value), panic |-> NoPanic]
    ELSE LET goLeft == target_pos < self.mid
             child == IF goLeft THEN self.l_node ELSE self.r_node
             sub == IF child = None THEN [node |-> None, panic |-> NoPanic]
                    ELSE revise(child, target_pos, value, checks)
             descended == IF goLeft THEN [self EXCEPT !.l_node = sub.node]
                          ELSE [self EXCEPT !.r_node = sub.node]
             c == comb(ValOr0(descended.l_node), ValOr0(descended.r_node), checks)
         IN  IF sub.panic # NoPanic THEN [node |-> descended, panic |-> sub.panic]
             ELSE IF c.panic # NoPanic THEN [node |-> descended, panic |-> c.panic]
             ELSE [node |-> [descended EXCEPT !.val = c.val], panic |-> NoPanic]

\* ------------------------------------------------------------- range query

\* l >= r || l < self.range.0 || r > self.range.1
InvalidQuery(self, l, r) ==
    l >= r \/ l < self.range[1] \/ r > self.range[2]

RECURSIVE ask(_, _, _, _)
ask(self, l, r, checks) ==
    IF InvalidQuery(self, l, r) THEN [val |-> 0, panic |-> InvalidQueryRangeMsg]
    ELSE IF <<l, r>> = self.range THEN [val |-> self.val, panic |-> NoPanic]
    ELSE IF r <= self.mid
    THEN IF self.l_node = None THEN [val |-> 0, panic |-> NoPanic]
         ELSE ask(self.l_node, l, r, checks)
    ELSE IF l >= self.mid
    THEN IF self.r_node = None THEN [val |-> 0, panic |-> NoPanic]
         ELSE ask(self.r_node, l, r, checks)
    ELSE LET left_val == IF self.l_node = None THEN [val |-> 0, panic |-> NoPanic]
                         ELSE ask(self.l_node, l, self.mid, checks)
             right_val == IF self.r_node = None THEN [val |-> 0, panic |-> NoPanic]
                          ELSE ask(self.r_node, self.mid, r, checks)
         IN  IF left_val.panic # NoPanic THEN left_val
             ELSE IF right_val.panic # NoPanic THEN right_val
             ELSE add_i32(left_val.val, right_val.val, checks)

\* ---------------------------------------------------------------- actions

Init ==
    /\ tree = None
    /\ op = [name |-> "none", a |-> 0, b |-> 0]
    /\ result = [panic |-> NoPanic, val |-> 0]
    /\ leaves = [i \in Indices |-> 0]
    /\ overflow_checks \in BOOLEAN

\* let t = SegTree::new(l, r): the tree is built once; a call that panicked
\* returned no tree and may be made again.
New ==
    /\ tree = None
    /\ \E l \in Indices, r \in Indices :
        LET res == new(l, r) IN
        /\ tree' = res.node
        /\ op' = [name |-> "new", a |-> l, b |-> r]
        /\ result' = [panic |-> res.panic, val |-> 0]
        /\ UNCHANGED <<leaves, overflow_checks>>

\* t.revise(target_pos, value)
Revise ==
    /\ tree # None
    /\ \E target_pos \in Indices, value \in Values :
        LET res == revise(tree, target_pos, value, overflow_checks) IN
        /\ tree' = res.node
        /\ op' = [name |-> "revise", a |-> target_pos, b |-> value]
        /\ result' = [panic |-> res.panic, val |-> 0]
        /\ leaves' = IF target_pos \in tree.range[1]..(tree.range[2] - 1)
                     THEN [leaves EXCEPT ![target_pos] = value]
                     ELSE leaves
        /\ UNCHANGED overflow_checks

\* t.ask(l, r)
Ask ==
    /\ tree # None
    /\ \E l \in Indices, r \in Indices :
        LET res == ask(tree, l, r, overflow_checks) IN
        /\ op' = [name |-> "ask", a |-> l, b |-> r]
        /\ result' = [panic |-> res.panic, val |-> res.val]
        /\ UNCHANGED <<tree, leaves, overflow_checks>>

Next == New \/ Revise \/ Ask

\* The caller catches a panic (catch_unwind) and goes on using what it holds.
Spec == Init /\ [][Next]_vars

\* The caller does not catch panics: the first panic ends the program.
NewOrAbort == result.panic = NoPanic /\ New

ReviseOrAbort == result.panic = NoPanic /\ Revise

AskOrAbort == result.panic = NoPanic /\ Ask

NextAbort == NewOrAbort \/ ReviseOrAbort \/ AskOrAbort

SpecAbort == Init /\ [][NextAbort]_vars

\* ------------------------------------------------- what the claims speak of

\* a + b is an i32, computed without leaving the i32 range
Fits(a, b) == ~(b > 0 /\ a > MaxI32 - b) /\ ~(b < 0 /\ a < MinI32 - b)

\* x is the integer a + b
IsSum(x, a, b) == Fits(a, b) /\ x = a + b

Half == 256 * 256

\* The integer sum of leaves[i], i in [l, r), as high and low 16-bit digits, so
\* that a sum outside i32 is still represented exactly.
RECURSIVE HiDigits(_, _, _)
HiDigits(f, l, r) == IF l >= r THEN 0 ELSE (f[l] \div Half) + HiDigits(f, l + 1, r)

RECURSIVE LoDigits(_, _, _)
LoDigits(f, l, r) == IF l >= r THEN 0 ELSE (f[l] % Half) + LoDigits(f, l + 1, r)

\* x is the integer sum of f[i] over i in [l, r)
IsRangeSum(x, f, l, r) ==
    /\ x \div Half = HiDigits(f, l, r) + (LoDigits(f, l, r) \div Half)
    /\ x % Half = LoDigits(f, l, r) % Half

IsLeaf(n) == n.l_node = None /\ n.r_node = None

RECURSIVE NumNodes(_)
NumNodes(n) == IF n = None THEN 0 ELSE 1 + NumNodes(n.l_node) + NumNodes(n.r_node)

RECURSIVE NumLeaves(_)
NumLeaves(n) ==
    IF n = None THEN 0
    ELSE IF IsLeaf(n) THEN 1
    ELSE NumLeaves(n.l_node) + NumLeaves(n.r_node)

RECURSIVE AllLeavesZero(_)
AllLeavesZero(n) ==
    IF IsLeaf(n) THEN n.val = 0
    ELSE /\ n.l_node # None => AllLeavesZero(n.l_node)
         /\ n.r_node # None => AllLeavesZero(n.r_node)

\* Non-empty intervals, children that split the parent at the floor midpoint,
\* and childless nodes of width one.
RECURSIVE WellFormed(_)
WellFormed(n) ==
    /\ n.range[1] < n.range[2]
    /\ IF IsLeaf(n) THEN n.range[2] - n.range[1] = 1
       ELSE /\ n.l_node # None /\ n.r_node # None
            /\ n.mid = n.range[1] + ((n.range[2] - n.range[1]) \div 2)
            /\ n.l_node.range = <<n.range[1], n.mid>>
            /\ n.r_node.range = <<n.mid, n.range[2]>>
            /\ WellFormed(n.l_node)
            /\ WellFormed(n.r_node)

\* value == left.value + right.value at every internal node
RECURSIVE Consistent(_)
Consistent(n) ==
    IF IsLeaf(n) THEN TRUE
    ELSE /\ IsSum(n.val, ValOr0(n.l_node), ValOr0(n.r_node))
         /\ n.l_node # None => Consistent(n.l_node)
         /\ n.r_node # None => Consistent(n.r_node)

Covers(n, pos) == n.range[1] <= pos /\ pos < n.range[2]

\* value == left.value + right.value at every internal node that covers pos,
\* and the leaf that covers pos holds value
RECURSIVE PathUpdated(_, _, _)
PathUpdated(n, pos, value) ==
    IF ~Covers(n, pos) THEN TRUE
    ELSE IF IsLeaf(n) THEN n.val = value
    ELSE /\ IsSum(n.val, ValOr0(n.l_node), ValOr0(n.r_node))
         /\ n.l_node # None => PathUpdated(n.l_node, pos, value)
         /\ n.r_node # None => PathUpdated(n.r_node, pos, value)

\* Between old and new: the same intervals, split points and child links at
\* every node, and the same value at every node that does not cover pos.
RECURSIVE OnlyPathChanged(_, _, _)
OnlyPathChanged(old, cur, pos) ==
    /\ cur.range = old.range
    /\ cur.mid = old.mid
    /\ ~Covers(old, pos) => cur.val = old.val
    /\ (cur.l_node = None) <=> (old.l_node = None)
    /\ (cur.r_node = None) <=> (old.r_node = None)
    /\ (old.l_node # None /\ cur.l_node # None)
           => OnlyPathChanged(old.l_node, cur.l_node, pos)
    /\ (old.r_node # None /\ cur.r_node # None)
           => OnlyPathChanged(old.r_node, cur.r_node, pos)

Called(name) == op.name = name

CalledNext(name) == op'.name = name

Returned == result.panic = NoPanic

\* ------------------------------------------------------------------ claims

ValidQuery(l, r) == tree # None /\ tree.range[1] <= l /\ l < r /\ r <= tree.range[2]

\* C1: every query with lo <= lo_q < hi_q <= hi returns the sum, over the
\* indices of [lo_q, hi_q), of the value most recently set there (0 where none
\* was set).
C1_QueryReturnsSum ==
    (Called("ask") /\ ValidQuery(op.a, op.b))
        => /\ Returned
           /\ IsRangeSum(result.val, leaves, op.a, op.b)

\* C2: for every lo < hi, width one included, build(lo, hi) returns a tree that
\* covers exactly [lo, hi) with every leaf 0, and a childless leaf when the
\* width is one.
C2_BuildReturnsTree ==
    (Called("new") /\ op.a < op.b)
        => /\ Returned
           /\ tree # None
           /\ tree.range = <<op.a, op.b>>
           /\ AllLeavesZero(tree)
           /\ (op.b - op.a = 1) => IsLeaf(tree)

\* C3: on a freshly built tree and after every completed update, every internal
\* node's value is its left child's value plus its right child's value.
C3_InternalNodesAreSums ==
    ((Called("new") \/ Called("revise")) /\ Returned /\ tree # None)
        => Consistent(tree)

\* C4: build(lo, hi) with lo = hi or lo > hi fails with the invalid-range error
\* and returns no tree.
C4_InvalidRangeFails ==
    (Called("new") /\ op.a >= op.b)
        => /\ result.panic = InvalidRangeMsg
           /\ tree = None

C4_Witness ==
    /\ Called("new")
    /\ op.a = op.b
    /\ result.panic = InvalidRangeMsg

\* C5: update(target, v) with target < lo or target >= hi fails with the
\* index-out-of-range error and leaves every node as it was.
C5_OutOfRangeUpdateFails ==
    [][(CalledNext("revise") /\ tree # None /\ ~Covers(tree, op'.a))
        => /\ result'.panic = IndexOutOfRangeMsg
           /\ tree' = tree]_vars

C5_Witness ==
    /\ Called("revise")
    /\ tree # None
    /\ op.a = tree.range[2]
    /\ result.panic = IndexOutOfRangeMsg
    /\ tree.val # 0

\* C6: a query fails with the invalid-query-range error when its range is empty,
\* inverted or not inside [lo, hi), and a query with lo <= lo_q < hi_q <= hi
\* never fails.
C6_QueryRangePolicy ==
    (Called("ask") /\ tree # None)
        => IF ValidQuery(op.a, op.b) THEN Returned
           ELSE result.panic = InvalidQueryRangeMsg

\* C7: an update either completes with the leaf set and every ancestor equal to
\* the sum of its children, or fails with every node value unchanged.
C7_UpdateAllOrNothing ==
    [][(CalledNext("revise") /\ tree # None)
        => \/ result'.panic = NoPanic /\ PathUpdated(tree', op'.a, op'.b)
           \/ result'.panic # NoPanic /\ tree' = tree]_vars

\* C8: update(i, v) performed a second time leaves every node value as the
\* first update(i, v) left it.
C8_UpdateIdempotent ==
    [][(CalledNext("revise") /\ tree # None /\ Covers(tree, op'.a))
        => LET again == revise(tree', op'.a, op'.b, overflow_checks)
           IN  /\ again.node = tree'
               /\ again.panic = result'.panic]_vars

C8_Witness ==
    /\ Called("revise")
    /\ Returned
    /\ tree # None
    /\ Covers(tree, op.a)
    /\ op.b = 1
    /\ tree.val = 2

\* C9: a successful update changes the value of no node whose interval does not
\* contain the target, changes no interval, split point or child link, and a
\* query changes nothing in the tree.
C9_Frame ==
    [][/\ (CalledNext("revise") /\ tree # None /\ result'.panic = NoPanic)
            => OnlyPathChanged(tree, tree', op'.a)
       /\ CalledNext("ask") => tree' = tree]_vars

C9_Witness ==
    /\ Called("revise")
    /\ Returned
    /\ tree # None
    /\ tree.r_node # None
    /\ ~Covers(tree.r_node, op.a)
    /\ tree.r_node.val = 2
    /\ tree.val = 3

\* C10: in every tree build returns over N indices, every interval is non-empty,
\* every internal node has two children that split it at lo + floor((hi-lo)/2),
\* every childless node covers one index, and there are N leaves and 2N - 1
\* nodes.
C10_Shape ==
    tree # None
        => /\ WellFormed(tree)
           /\ NumLeaves(tree) = tree.range[2] - tree.range[1]
           /\ NumNodes(tree) = 2 * (tree.range[2] - tree.range[1]) - 1

C10_Witness ==
    /\ Called("new")
    /\ Returned
    /\ tree # None
    /\ tree.range[2] - tree.range[1] = 3

====
